---- MODULE Spec2Model ----
(***************************************************************************)
(* The SR-IOV VF inventory manager of akos011221/nsm (pkg/hardware) and    *)
(* the controller that owns it (pkg/controller/controller.go).             *)
(*                                                                         *)
(* One goroutine runs SRIOVManager.Start: an initial discovery, then on    *)
(* every tick a discovery followed by a reconcile, until the context is    *)
(* cancelled.  Other goroutines (the clients) call GetVFForPod and         *)
(* ReleaseVF at any time.  The inventory map is guarded by one RWMutex;    *)
(* every Lock/RLock and Unlock/RUnlock is a step of its own, so that all   *)
(* interleavings the mutex allows are explored.                            *)
(*                                                                         *)
(* Go's iteration over a map has no specified order: wherever the code     *)
(* takes "the first" element of a range over the inventory, the model      *)
(* takes any element.                                                      *)
(***************************************************************************)
EXTENDS Integers, Sequences, FiniteSets, TLC

VARIABLES
    vfInventory,   \* SRIOVManager.vfInventory: VF key -> VirtualFunction
    mu,            \* SRIOVManager.mu: [writer: holder or NoOne, readers: set of holders]
    ctxDone,       \* whether m.ctx has been cancelled
    loop,          \* program counter of the goroutine running SRIOVManager.Start
    ticks,         \* ticks received from ticker.C so far (saturates at MaxTicks)
    devIdx,        \* discoverVirtualFunctions: index into the globbed device list
    numVFs,        \* discoverVirtualFunctions: numVFs of the current device
    vfID,          \* discoverVirtualFunctions: the loop variable vfID
    newInventory,  \* discoverVirtualFunctions: the local map newInventory
    pods,          \* reconcileAllocations: pods.Items
    client,        \* per client goroutine: [pc, ns, name, ret]
    ctrl,          \* program counter of the controller (Start / Stop)
    enableSRIOV,   \* config.EnableSRIOV
    invBefore,     \* history: the inventory when the current writer took the lock
    passLog        \* history: the calls Start has made since the last tick, with
                   \* their outcome ("discover", "discover_err", "reconcile", ...)

vars == <<vfInventory, mu, ctxDone, loop, ticks, devIdx, numVFs, vfID,
          newInventory, pods, client, ctrl, enableSRIOV, invBefore, passLog>>

(***************************************************************************)
(* Bounds of the model.                                                    *)
(***************************************************************************)
MaxNumVFs == 2     \* largest value read from a device's sriov_numvfs
MaxPods == 2       \* longest pod list the API server returns
MaxTicks == 2      \* the tick counter stops counting here (the loop goes on)

(***************************************************************************)
(* The environment: the host's network devices, the pods of the cluster,   *)
(* the goroutines that call the query/release interface.                   *)
(***************************************************************************)
Devices == <<"docker0", "eth0">>
Identities == {<<"default", "podA">>, <<"default", "podB">>, <<"prod", "podA">>}
Clients == {"c1"}
NoOne == "none"
LoopId == "loop"

Min(a, b) == IF a < b THEN a ELSE b

EmptyInventory == [k \in {} |-> 0]

(***************************************************************************)
(* VirtualFunction and the pure parts of the code.                         *)
(***************************************************************************)
ZeroVF ==
    [PFName |-> "", VFID |-> 0, PCIAddress |-> "", InterfaceName |-> "",
     Allocated |-> FALSE, AllocatedTo |-> "", Namespace |-> ""]

HasPrefix(s, p) == Len(s) >= Len(p) /\ SubSeq(s, 1, Len(p)) = p

SkipDevice(pfName) == HasPrefix(pfName, "docker") \/ HasPrefix(pfName, "veth")

VFKey(pfName, id) == pfName \o "-vf" \o ToString(id)

\* PCI_SLOT_NAME of the VF's uevent file: host data, fixed per VF.
PCISlotName(pfName, id) == "0000:03:10." \o ToString(id)

GetVFDetails(pfName, id) ==
    [PFName |-> pfName, VFID |-> id, PCIAddress |-> PCISlotName(pfName, id),
     InterfaceName |-> pfName \o "_vf" \o ToString(id),
     Allocated |-> FALSE, AllocatedTo |-> "", Namespace |-> ""]

\* CarryForward, without the copy of Namespace.
CarryForwardNoNamespace(inv, key, vf) ==
    IF key \in DOMAIN inv /\ inv[key].Allocated
    THEN [vf EXCEPT !.Allocated = inv[key].Allocated,
                    !.AllocatedTo = inv[key].AllocatedTo]
    ELSE vf

CarryForward(inv, key, vf) ==
    IF key \in DOMAIN inv /\ inv[key].Allocated
    THEN [vf EXCEPT !.Allocated = inv[key].Allocated,
                    !.AllocatedTo = inv[key].AllocatedTo,
                    !.Namespace = inv[key].Namespace]
    ELSE vf

Put(inv, key, vf) ==
    [k \in DOMAIN inv \cup {key} |-> IF k = key THEN vf ELSE inv[k]]

Free(vf) ==
    [vf EXCEPT !.Allocated = FALSE, !.AllocatedTo = "", !.Namespace = ""]

\* AllocateTo, without the assignment of Namespace.
AllocateToNoNamespace(vf, pod) ==
    [vf EXCEPT !.Allocated = TRUE, !.AllocatedTo = pod.Name]

AllocateTo(vf, pod) ==
    [vf EXCEPT !.Allocated = TRUE, !.AllocatedTo = pod.Name,
               !.Namespace = pod.Namespace]

Owns(vf, ns, name) ==
    vf.Allocated /\ vf.AllocatedTo = name /\ vf.Namespace = ns

(***************************************************************************)
(* The pod list returned by Pods("").List with the sriov=true selector:    *)
(* no two pods share a (namespace, name).                                  *)
(***************************************************************************)
Pod == [Name : {w[2] : w \in Identities}, Namespace : {w[1] : w \in Identities},
        Terminating : BOOLEAN]

Listable == {p \in Pod : <<p.Namespace, p.Name>> \in Identities}

PodLists ==
    {l \in UNION {[1..n -> Listable] : n \in 0..MaxPods} :
        \A i, j \in 1..Len(l) :
            (l[i].Name = l[j].Name /\ l[i].Namespace = l[j].Namespace) => i = j}

(***************************************************************************)
(* reconcileAllocations, first pass: a VF whose recorded pod is not in the *)
(* list (by name and namespace) is freed; a free VF is rewritten as free.  *)
(***************************************************************************)
PodExists(vf, items) ==
    /\ vf.Allocated
    /\ vf.AllocatedTo # ""
    /\ \E i \in 1..Len(items) :
          items[i].Name = vf.AllocatedTo /\ items[i].Namespace = vf.Namespace

ReleasePass(inv, items) ==
    [k \in DOMAIN inv |-> IF PodExists(inv[k], items) THEN inv[k] ELSE Free(inv[k])]

(***************************************************************************)
(* reconcileAllocations, second pass.  AllocateOne is the body of the loop *)
(* over pods.Items for one pod: the set of inventories it can leave, one   *)
(* per free VF the range over the map may yield first.                     *)
(***************************************************************************)
\* AlreadyAllocated, with the check left out.
AlreadyAllocatedNever(inv, pod) == FALSE

AlreadyAllocated(inv, pod) ==
    \E k \in DOMAIN inv : Owns(inv[k], pod.Namespace, pod.Name)

FreeKeys(inv) == {k \in DOMAIN inv : ~inv[k].Allocated}

\* AllocateOne, taking any VF of the inventory instead of a free one.
AllocateOneAny(inv, pod) ==
    IF pod.Terminating \/ AlreadyAllocated(inv, pod) \/ DOMAIN inv = {}
    THEN {inv}
    ELSE {[inv EXCEPT ![k] = AllocateTo(inv[k], pod)] : k \in DOMAIN inv}

\* AllocateOne, without the skip of a terminating pod.
AllocateOneTerminatingToo(inv, pod) ==
    IF AlreadyAllocated(inv, pod) \/ FreeKeys(inv) = {}
    THEN {inv}
    ELSE {[inv EXCEPT ![k] = AllocateTo(inv[k], pod)] : k \in FreeKeys(inv)}

\* AllocateOne, without the break after the first free VF: every free VF
\* goes to the pod.
AllocateOneNoBreak(inv, pod) ==
    IF pod.Terminating \/ AlreadyAllocated(inv, pod) \/ FreeKeys(inv) = {}
    THEN {inv}
    ELSE {[k \in DOMAIN inv |->
             IF inv[k].Allocated THEN inv[k] ELSE AllocateTo(inv[k], pod)]}

AllocateOne(inv, pod) ==
    IF pod.Terminating \/ AlreadyAllocated(inv, pod) \/ FreeKeys(inv) = {}
    THEN {inv}
    ELSE {[inv EXCEPT ![k] = AllocateTo(inv[k], pod)] : k \in FreeKeys(inv)}

\* AllocatePass, leaving the loop over the pods after the first pod.
AllocatePassFirstOnly(invs, items, i) ==
    IF i > Len(items) \/ i > 1
    THEN invs
    ELSE UNION {AllocateOne(inv, items[i]) : inv \in invs}

RECURSIVE AllocatePass(_, _, _)
AllocatePass(invs, items, i) ==
    IF i > Len(items)
    THEN invs
    ELSE AllocatePass(UNION {AllocateOne(inv, items[i]) : inv \in invs}, items, i + 1)

\* Every inventory one whole reconcile (both passes) can leave.
ReconcileResults(inv, items) == AllocatePass({ReleasePass(inv, items)}, items, 1)

(***************************************************************************)
(* GetVFForPod and ReleaseVF: the range over the map returns at the first  *)
(* VF that matches, which is any VF that matches.                          *)
(***************************************************************************)
Matches(inv, ns, name) == {k \in DOMAIN inv : Owns(inv[k], ns, name)}

\* GetVFForPod, matching the pod by name only.
GetVFForPodByName(inv, ns, name) ==
    IF \E k \in DOMAIN inv : inv[k].Allocated /\ inv[k].AllocatedTo = name
    THEN {[vf |-> inv[k], found |-> TRUE] :
            k \in {j \in DOMAIN inv : inv[j].Allocated /\ inv[j].AllocatedTo = name}}
    ELSE {[vf |-> ZeroVF, found |-> FALSE]}

GetVFForPod(inv, ns, name) ==
    IF Matches(inv, ns, name) = {}
    THEN {[vf |-> ZeroVF, found |-> FALSE]}
    ELSE {[vf |-> inv[k], found |-> TRUE] : k \in Matches(inv, ns, name)}

\* ReleaseVF, clearing Allocated and AllocatedTo but not Namespace.
ReleaseVFKeepNamespace(inv, ns, name) ==
    IF Matches(inv, ns, name) = {}
    THEN {[inv |-> inv, ret |-> FALSE]}
    ELSE {[inv |-> [inv EXCEPT ![k] = [inv[k] EXCEPT !.Allocated = FALSE,
                                                      !.AllocatedTo = ""]],
           ret |-> TRUE] : k \in Matches(inv, ns, name)}

ReleaseVF(inv, ns, name) ==
    IF Matches(inv, ns, name) = {}
    THEN {[inv |-> inv, ret |-> FALSE]}
    ELSE {[inv |-> [inv EXCEPT ![k] = Free(inv[k])], ret |-> TRUE] :
            k \in Matches(inv, ns, name)}

(***************************************************************************)
(* sync.RWMutex                                                            *)
(***************************************************************************)
\* CanLock, not waiting for the readers to leave.
CanLockDespiteReaders == mu.writer = NoOne

CanLock == mu.writer = NoOne /\ mu.readers = {}
CanRLock == mu.writer = NoOne
Locked(who) == [mu EXCEPT !.writer = who]
Unlocked == [mu EXCEPT !.writer = NoOne]
RLocked(who) == [mu EXCEPT !.readers = @ \cup {who}]
RUnlocked(who) == [mu EXCEPT !.readers = @ \ {who}]

(***************************************************************************)
(* Initial state: NewController has built the manager (when SR-IOV is      *)
(* enabled) with an empty inventory; nothing runs yet.                     *)
(***************************************************************************)
IdleClient == [pc |-> "idle", ns |-> "", name |-> "", found |-> FALSE, vf |-> ZeroVF]

Init ==
    /\ vfInventory = EmptyInventory
    /\ mu = [writer |-> NoOne, readers |-> {}]
    /\ ctxDone = FALSE
    /\ loop = "idle"
    /\ ticks = 0
    /\ devIdx = 0
    /\ numVFs = 0
    /\ vfID = 0
    /\ newInventory = EmptyInventory
    /\ pods = <<>>
    /\ client = [c \in Clients |-> IdleClient]
    /\ ctrl = [pc |-> "new", hwErr |-> FALSE, err |-> FALSE, how |-> ""]
    /\ enableSRIOV \in BOOLEAN
    /\ invBefore = EmptyInventory
    /\ passLog = <<>>

scanVars == <<devIdx, numVFs, vfID, newInventory>>
envVars == <<client, ctrl, enableSRIOV>>

(***************************************************************************)
(* Controller.Start and Controller.Stop                                    *)
(***************************************************************************)
\* ControllerStart, returning the validation error instead of warning.
ControllerStartStrict ==
    /\ ctrl.pc = "new"
    /\ \E failed \in BOOLEAN :
          /\ ctrl' = [ctrl EXCEPT !.pc = "started", !.hwErr = failed /\ enableSRIOV,
                                  !.err = failed /\ enableSRIOV]
          /\ loop' = IF enableSRIOV /\ ~failed THEN "disc_glob" ELSE loop
    /\ UNCHANGED <<vfInventory, mu, ctxDone, ticks, scanVars, pods, client,
                   enableSRIOV, invBefore, passLog>>

\* validateHardware fails or not (the host decides); Start only warns, then
\* launches the manager's goroutine when the manager exists, and returns nil.
ControllerStart ==
    /\ ctrl.pc = "new"
    /\ \E failed \in BOOLEAN :
          ctrl' = [ctrl EXCEPT !.pc = "started", !.hwErr = failed /\ enableSRIOV,
                               !.err = FALSE]
    /\ loop' = IF enableSRIOV THEN "disc_glob" ELSE loop
    /\ UNCHANGED <<vfInventory, mu, ctxDone, ticks, scanVars, pods, client,
                   enableSRIOV, invBefore, passLog>>

\* c.cancel(), then Stop waits for the WaitGroup or for the timeout.
ControllerStop ==
    /\ ctrl.pc = "started"
    /\ ctrl' = [ctrl EXCEPT !.pc = "stopping"]
    /\ ctxDone' = TRUE
    /\ UNCHANGED <<vfInventory, mu, loop, ticks, scanVars, pods, client,
                   enableSRIOV, invBefore, passLog>>

ControllerStopDone ==
    /\ ctrl.pc = "stopping"
    /\ loop \in {"idle", "returned"}
    /\ ctrl' = [ctrl EXCEPT !.pc = "stopped", !.how = "graceful"]
    /\ UNCHANGED <<vfInventory, mu, ctxDone, loop, ticks, scanVars, pods, client,
                   enableSRIOV, invBefore, passLog>>

ControllerStopTimeout ==
    /\ ctrl.pc = "stopping"
    /\ ctrl' = [ctrl EXCEPT !.pc = "stopped", !.how = "timeout"]
    /\ UNCHANGED <<vfInventory, mu, ctxDone, loop, ticks, scanVars, pods, client,
                   enableSRIOV, invBefore, passLog>>

(***************************************************************************)
(* SRIOVManager.discoverVirtualFunctions                                   *)
(***************************************************************************)
\* DiscoverGlob, with Start returning when the discovery fails.
DiscoverGlobFatal ==
    /\ loop = "disc_glob"
    /\ \/ /\ loop' = "returned"
          /\ passLog' = Append(passLog, "discover_err")
          /\ UNCHANGED scanVars
       \/ /\ loop' = "disc_dev"
          /\ passLog' = Append(passLog, "discover")
          /\ devIdx' = 1
          /\ newInventory' = EmptyInventory
          /\ UNCHANGED <<numVFs, vfID>>
    /\ UNCHANGED <<vfInventory, mu, ctxDone, ticks, pods, envVars, invBefore>>

\* DiscoverGlob, with Start's `continue` left out: the reconcile of the tick
\* runs after a failed discovery.
DiscoverGlobNoContinue ==
    /\ loop = "disc_glob"
    /\ \/ /\ loop' = (IF ticks = 0 THEN "select" ELSE "rec_list")
          /\ passLog' = Append(passLog, "discover_err")
          /\ UNCHANGED scanVars
       \/ /\ loop' = "disc_dev"
          /\ passLog' = Append(passLog, "discover")
          /\ devIdx' = 1
          /\ newInventory' = EmptyInventory
          /\ UNCHANGED <<numVFs, vfID>>
    /\ UNCHANGED <<vfInventory, mu, ctxDone, ticks, pods, envVars, invBefore>>

\* filepath.Glob("/sys/class/net/*"): an error returns from the pass at once.
DiscoverGlob ==
    /\ loop = "disc_glob"
    /\ \/ /\ loop' = "select"
          /\ passLog' = Append(passLog, "discover_err")
          /\ UNCHANGED scanVars
       \/ /\ loop' = "disc_dev"
          /\ passLog' = Append(passLog, "discover")
          /\ devIdx' = 1
          /\ newInventory' = EmptyInventory
          /\ UNCHANGED <<numVFs, vfID>>
    /\ UNCHANGED <<vfInventory, mu, ctxDone, ticks, pods, envVars, invBefore>>

\* One iteration of the loop over devices, up to the loop over its VFs.
DiscoverDevice ==
    /\ loop = "disc_dev"
    /\ \/ /\ devIdx > Len(Devices)
          /\ loop' = "swap_lock"
          /\ UNCHANGED <<devIdx, numVFs, vfID>>
       \/ /\ devIdx <= Len(Devices)
          /\ SkipDevice(Devices[devIdx])
          /\ devIdx' = devIdx + 1
          /\ UNCHANGED <<loop, numVFs, vfID>>
       \/ /\ devIdx <= Len(Devices)
          /\ ~SkipDevice(Devices[devIdx])
          /\ \/ \* sriov_numvfs does not exist, or cannot be read or parsed
                /\ devIdx' = devIdx + 1
                /\ UNCHANGED <<loop, numVFs, vfID>>
             \/ \E n \in 0..MaxNumVFs :
                   IF n <= 0
                   THEN /\ devIdx' = devIdx + 1
                        /\ UNCHANGED <<loop, numVFs, vfID>>
                   ELSE /\ numVFs' = n
                        /\ vfID' = 0
                        /\ loop' = "disc_vf"
                        /\ UNCHANGED devIdx
    /\ UNCHANGED <<vfInventory, mu, ctxDone, ticks, newInventory, pods, envVars,
                   invBefore, passLog>>

\* One iteration of the loop over vfID, up to the RLock: getVFDetails fails
\* (the VF is skipped) or yields the VF's details.
DiscoverVF ==
    /\ loop = "disc_vf"
    /\ \/ /\ vfID >= numVFs
          /\ devIdx' = devIdx + 1
          /\ loop' = "disc_dev"
          /\ UNCHANGED vfID
       \/ /\ vfID < numVFs
          /\ vfID' = vfID + 1
          /\ UNCHANGED <<loop, devIdx>>
       \/ /\ vfID < numVFs
          /\ loop' = "disc_rlock"
          /\ UNCHANGED <<vfID, devIdx>>
    /\ UNCHANGED <<vfInventory, mu, ctxDone, ticks, numVFs, newInventory, pods,
                   envVars, invBefore, passLog>>

DiscoverRLock ==
    /\ loop = "disc_rlock"
    /\ CanRLock
    /\ mu' = RLocked(LoopId)
    /\ loop' = "disc_carry"
    /\ UNCHANGED <<vfInventory, ctxDone, ticks, scanVars, pods, envVars,
                   invBefore, passLog>>

\* DiscoverCarry, writing the VF into the shared inventory as it is found.
DiscoverCarryInPlace ==
    /\ loop = "disc_carry"
    /\ LET pfName == Devices[devIdx]
           vfKey == VFKey(pfName, vfID)
           vf == CarryForward(vfInventory, vfKey, GetVFDetails(pfName, vfID))
       IN  /\ newInventory' = Put(newInventory, vfKey, vf)
           /\ vfInventory' = Put(vfInventory, vfKey, vf)
    /\ mu' = RUnlocked(LoopId)
    /\ vfID' = vfID + 1
    /\ loop' = "disc_vf"
    /\ UNCHANGED <<ctxDone, ticks, devIdx, numVFs, pods, envVars, invBefore, passLog>>

\* The read of the existing entry under RLock, RUnlock, and the insertion
\* into newInventory.
DiscoverCarry ==
    /\ loop = "disc_carry"
    /\ LET pfName == Devices[devIdx]
           vfKey == VFKey(pfName, vfID)
       IN  newInventory' =
               Put(newInventory, vfKey,
                   CarryForward(vfInventory, vfKey, GetVFDetails(pfName, vfID)))
    /\ mu' = RUnlocked(LoopId)
    /\ vfID' = vfID + 1
    /\ loop' = "disc_vf"
    /\ UNCHANGED <<vfInventory, ctxDone, ticks, devIdx, numVFs, pods, envVars,
                   invBefore, passLog>>

SwapLock ==
    /\ loop = "swap_lock"
    /\ CanLock
    /\ mu' = Locked(LoopId)
    /\ loop' = "swap_assign"
    /\ UNCHANGED <<vfInventory, ctxDone, ticks, scanVars, pods, envVars,
                   invBefore, passLog>>

\* Installed, keeping the old entries the new map lacks.
InstalledMerged(old, new) ==
    [k \in DOMAIN old \cup DOMAIN new |-> IF k \in DOMAIN new THEN new[k] ELSE old[k]]

\* The assignment m.vfInventory = newInventory.
Installed(old, new) == new

SwapAssign ==
    /\ loop = "swap_assign"
    /\ invBefore' = vfInventory
    /\ vfInventory' = Installed(vfInventory, newInventory)
    /\ loop' = "swap_unlock"
    /\ UNCHANGED <<mu, ctxDone, ticks, scanVars, pods, envVars, passLog>>

\* SwapUnlock, without the Unlock: the lock is kept for the reconcile.
SwapUnlockForgotten ==
    /\ loop = "swap_unlock"
    /\ invBefore' = EmptyInventory
    /\ devIdx' = 0
    /\ numVFs' = 0
    /\ vfID' = 0
    /\ newInventory' = EmptyInventory
    /\ loop' = IF ticks = 0 THEN "select" ELSE "rec_list"
    /\ UNCHANGED <<vfInventory, mu, ctxDone, ticks, pods, envVars, passLog>>

\* Unlock and return nil: the initial discovery goes on to the ticker loop,
\* a tick's discovery goes on to reconcileAllocations.
SwapUnlock ==
    /\ loop = "swap_unlock"
    /\ mu' = Unlocked
    /\ invBefore' = EmptyInventory
    /\ devIdx' = 0
    /\ numVFs' = 0
    /\ vfID' = 0
    /\ newInventory' = EmptyInventory
    /\ loop' = IF ticks = 0 THEN "select" ELSE "rec_list"
    /\ UNCHANGED <<vfInventory, ctxDone, ticks, pods, envVars, passLog>>

(***************************************************************************)
(* SRIOVManager.reconcileAllocations                                       *)
(***************************************************************************)
\* ReconcileList, going on with an empty list when the call fails, so that
\* the release pass frees every VF.
ReconcileListErrAsEmpty ==
    /\ loop = "rec_list"
    /\ \/ /\ loop' = "select"
          /\ passLog' = Append(passLog, "reconcile_err")
          /\ vfInventory' = ReleasePass(vfInventory, <<>>)
          /\ UNCHANGED pods
       \/ /\ ~ctxDone
          /\ passLog' = Append(passLog, "reconcile")
          /\ pods' \in PodLists
          /\ loop' = "rec_lock"
          /\ UNCHANGED vfInventory
    /\ UNCHANGED <<mu, ctxDone, ticks, scanVars, envVars, invBefore>>

\* Pods("").List(m.ctx, ...): fails when the context is already cancelled,
\* and may fail otherwise; the error returns before the lock is taken.
ReconcileList ==
    /\ loop = "rec_list"
    /\ \/ /\ loop' = "select"
          /\ passLog' = Append(passLog, "reconcile_err")
          /\ UNCHANGED pods
       \/ /\ ~ctxDone
          /\ passLog' = Append(passLog, "reconcile")
          /\ pods' \in PodLists
          /\ loop' = "rec_lock"
    /\ UNCHANGED <<vfInventory, mu, ctxDone, ticks, scanVars, envVars, invBefore>>

ReconcileLock ==
    /\ loop = "rec_lock"
    /\ CanLock
    /\ mu' = Locked(LoopId)
    /\ loop' = "rec_release"
    /\ UNCHANGED <<vfInventory, ctxDone, ticks, scanVars, pods, envVars,
                   invBefore, passLog>>

\* ReconcileRelease, unlocking between the two passes.
ReconcileReleaseUnlocks ==
    /\ loop = "rec_release"
    /\ invBefore' = vfInventory
    /\ vfInventory' = ReleasePass(vfInventory, pods)
    /\ mu' = Unlocked
    /\ loop' = "rec_allocate"
    /\ UNCHANGED <<ctxDone, ticks, scanVars, pods, envVars, passLog>>

ReconcileRelease ==
    /\ loop = "rec_release"
    /\ invBefore' = vfInventory
    /\ vfInventory' = ReleasePass(vfInventory, pods)
    /\ loop' = "rec_allocate"
    /\ UNCHANGED <<mu, ctxDone, ticks, scanVars, pods, envVars, passLog>>

ReconcileAllocate ==
    /\ loop = "rec_allocate"
    /\ vfInventory' \in AllocatePass({vfInventory}, pods, 1)
    /\ loop' = "rec_unlock"
    /\ UNCHANGED <<mu, ctxDone, ticks, scanVars, pods, envVars, invBefore, passLog>>

\* reconcileAllocations without its deferred Unlock.
ReconcileUnlockForgotten ==
    /\ loop = "rec_unlock"
    /\ invBefore' = EmptyInventory
    /\ pods' = <<>>
    /\ loop' = "select"
    /\ UNCHANGED <<vfInventory, mu, ctxDone, ticks, scanVars, envVars, passLog>>

\* The deferred Unlock, and the return to Start's loop.
ReconcileUnlock ==
    /\ loop = "rec_unlock"
    /\ mu' = Unlocked
    /\ invBefore' = EmptyInventory
    /\ pods' = <<>>
    /\ loop' = "select"
    /\ UNCHANGED <<vfInventory, ctxDone, ticks, scanVars, envVars, passLog>>

(***************************************************************************)
(* SRIOVManager.Start: the select over ticker.C and m.ctx.Done()           *)
(***************************************************************************)
LoopTick ==
    /\ loop = "select"
    /\ ticks' = Min(ticks + 1, MaxTicks)
    /\ passLog' = <<>>
    /\ loop' = "disc_glob"
    /\ UNCHANGED <<vfInventory, mu, ctxDone, scanVars, pods, envVars, invBefore>>

\* A select without the ctx.Done() case: the cancellation is never observed.
LoopDoneUnobserved ==
    /\ loop = "select"
    /\ ctxDone
    /\ UNCHANGED vars

LoopDone ==
    /\ loop = "select"
    /\ ctxDone
    /\ loop' = "returned"
    /\ UNCHANGED <<vfInventory, mu, ctxDone, ticks, scanVars, pods, envVars,
                   invBefore, passLog>>

(***************************************************************************)
(* SRIOVManager.GetVFForPod, called by client c                            *)
(***************************************************************************)
GetCall(c) ==
    /\ enableSRIOV
    /\ client[c].pc = "idle"
    /\ \E w \in Identities :
          client' = [client EXCEPT ![c] =
                        [IdleClient EXCEPT !.pc = "get_rlock", !.ns = w[1], !.name = w[2]]]
    /\ UNCHANGED <<vfInventory, mu, ctxDone, loop, ticks, scanVars, pods, ctrl,
                   enableSRIOV, invBefore, passLog>>

GetRLock(c) ==
    /\ client[c].pc = "get_rlock"
    /\ CanRLock
    /\ mu' = RLocked(c)
    /\ client' = [client EXCEPT ![c].pc = "get_scan"]
    /\ UNCHANGED <<vfInventory, ctxDone, loop, ticks, scanVars, pods, ctrl,
                   enableSRIOV, invBefore, passLog>>

GetScan(c) ==
    /\ client[c].pc = "get_scan"
    /\ \E r \in GetVFForPod(vfInventory, client[c].ns, client[c].name) :
          client' = [client EXCEPT ![c].pc = "get_runlock",
                                   ![c].found = r.found, ![c].vf = r.vf]
    /\ UNCHANGED <<vfInventory, mu, ctxDone, loop, ticks, scanVars, pods, ctrl,
                   enableSRIOV, invBefore, passLog>>

GetReturn(c) ==
    /\ client[c].pc = "get_runlock"
    /\ mu' = RUnlocked(c)
    /\ client' = [client EXCEPT ![c] = IdleClient]
    /\ UNCHANGED <<vfInventory, ctxDone, loop, ticks, scanVars, pods, ctrl,
                   enableSRIOV, invBefore, passLog>>

(***************************************************************************)
(* SRIOVManager.ReleaseVF, called by client c                              *)
(***************************************************************************)
ReleaseCall(c) ==
    /\ enableSRIOV
    /\ client[c].pc = "idle"
    /\ \E w \in Identities :
          client' = [client EXCEPT ![c] =
                        [IdleClient EXCEPT !.pc = "rel_lock", !.ns = w[1], !.name = w[2]]]
    /\ UNCHANGED <<vfInventory, mu, ctxDone, loop, ticks, scanVars, pods, ctrl,
                   enableSRIOV, invBefore, passLog>>

ReleaseLock(c) ==
    /\ client[c].pc = "rel_lock"
    /\ CanLock
    /\ mu' = Locked(c)
    /\ client' = [client EXCEPT ![c].pc = "rel_scan"]
    /\ UNCHANGED <<vfInventory, ctxDone, loop, ticks, scanVars, pods, ctrl,
                   enableSRIOV, invBefore, passLog>>

ReleaseScan(c) ==
    /\ client[c].pc = "rel_scan"
    /\ invBefore' = vfInventory
    /\ \E r \in ReleaseVF(vfInventory, client[c].ns, client[c].name) :
          /\ vfInventory' = r.inv
          /\ client' = [client EXCEPT ![c].pc = "rel_unlock", ![c].found = r.ret]
    /\ UNCHANGED <<mu, ctxDone, loop, ticks, scanVars, pods, ctrl, enableSRIOV,
                   passLog>>

ReleaseReturn(c) ==
    /\ client[c].pc = "rel_unlock"
    /\ mu' = Unlocked
    /\ invBefore' = EmptyInventory
    /\ client' = [client EXCEPT ![c] = IdleClient]
    /\ UNCHANGED <<vfInventory, ctxDone, loop, ticks, scanVars, pods, ctrl,
                   enableSRIOV, passLog>>

(***************************************************************************)
(* The specification                                                       *)
(***************************************************************************)
Next ==
    \/ ControllerStart
    \/ ControllerStop
    \/ ControllerStopDone
    \/ ControllerStopTimeout
    \/ DiscoverGlob
    \/ DiscoverDevice
    \/ DiscoverVF
    \/ DiscoverRLock
    \/ DiscoverCarry
    \/ SwapLock
    \/ SwapAssign
    \/ SwapUnlock
    \/ ReconcileList
    \/ ReconcileLock
    \/ ReconcileRelease
    \/ ReconcileAllocate
    \/ ReconcileUnlock
    \/ LoopTick
    \/ LoopDone
    \/ \E c \in Clients :
          \/ GetCall(c)
          \/ GetRLock(c)
          \/ GetScan(c)
          \/ GetReturn(c)
          \/ ReleaseCall(c)
          \/ ReleaseLock(c)
          \/ ReleaseScan(c)
          \/ ReleaseReturn(c)

Spec == Init /\ [][Next]_vars

(***************************************************************************)
(* Fairness.  The goroutine of Start keeps running: each of its steps that *)
(* does not wait is taken (WF).  sync.RWMutex lets no caller starve (a     *)
(* pending Lock holds back new readers, an Unlock wakes the waiting        *)
(* readers first), so a Lock or RLock that can succeed again and again     *)
(* does succeed (SF).  The select of Start picks at random among the ready *)
(* cases, so once the context is done it cannot prefer the ticker for      *)
(* ever (SF).  Stop's select has its timeout.  Nothing obliges the ticker  *)
(* to tick, the clients to call, or the controller to start or stop.       *)
(***************************************************************************)
LoopStep ==
    \/ DiscoverGlob \/ DiscoverDevice \/ DiscoverVF \/ DiscoverCarry
    \/ SwapAssign \/ SwapUnlock
    \/ ReconcileList \/ ReconcileRelease \/ ReconcileAllocate \/ ReconcileUnlock

LoopAcquire == DiscoverRLock \/ SwapLock \/ ReconcileLock

LoopFairness ==
    /\ WF_vars(LoopStep)
    /\ SF_vars(LoopAcquire)
    /\ SF_vars(LoopDone)

ClientStep(c) == GetScan(c) \/ GetReturn(c) \/ ReleaseScan(c) \/ ReleaseReturn(c)

ClientAcquire(c) == GetRLock(c) \/ ReleaseLock(c)

ClientFairness ==
    \A c \in Clients : WF_vars(ClientStep(c)) /\ SF_vars(ClientAcquire(c))

StopFairness == WF_vars(ControllerStopDone \/ ControllerStopTimeout)

FairSpec == Spec /\ LoopFairness /\ ClientFairness /\ StopFairness

(***************************************************************************)
(* Properties.  invBefore is the inventory as the writer that holds the    *)
(* lock found it, so in the states where a writer has done its work and    *)
(* not yet unlocked (swap_unlock, rec_unlock, rel_unlock) invBefore and    *)
(* vfInventory are the writer's pre-state and post-state.                  *)
(***************************************************************************)
SameAllocation(a, b) ==
    /\ a.Allocated = b.Allocated
    /\ a.AllocatedTo = b.AllocatedTo
    /\ a.Namespace = b.Namespace

Listed(items, ns, name) ==
    \E i \in 1..Len(items) : items[i].Name = name /\ items[i].Namespace = ns

ListedTerminating(items, ns, name) ==
    \E i \in 1..Len(items) :
        items[i].Name = name /\ items[i].Namespace = ns /\ items[i].Terminating

Unserved(inv, items) ==
    {i \in 1..Len(items) : ~items[i].Terminating /\ ~AlreadyAllocated(inv, items[i])}

\* C1. No double allocation: every VF record names at most one holder, and
\* no writer (discovery swap, reconcile, ReleaseVF) hands a VF that one
\* workload holds to another workload, except that reconcile may pass on a
\* VF whose holder is no longer in the pod list; a VF whose holder is
\* listed stays with that holder through the reconcile.
C1_NoDoubleAllocation ==
    /\ \A k \in DOMAIN vfInventory :
          Cardinality({w \in Identities : Owns(vfInventory[k], w[1], w[2])}) <= 1
    /\ \A k \in DOMAIN invBefore \cap DOMAIN vfInventory :
          (/\ invBefore[k].Allocated
           /\ vfInventory[k].Allocated
           /\ ~SameAllocation(invBefore[k], vfInventory[k]))
          => (loop = "rec_unlock" /\ ~PodExists(invBefore[k], pods))
    /\ loop = "rec_unlock" =>
          \A k \in DOMAIN invBefore :
              PodExists(invBefore[k], pods) =>
                  k \in DOMAIN vfInventory /\ SameAllocation(invBefore[k], vfInventory[k])

\* A reconcile has run with every VF held by a listed pod while another
\* listed pod, not terminating, wanted one: it ends unserved.
C1_Witness ==
    /\ loop = "rec_unlock"
    /\ DOMAIN invBefore # {}
    /\ \A k \in DOMAIN invBefore : PodExists(invBefore[k], pods)
    /\ Unserved(vfInventory, pods) # {}

\* C2. Release on owner termination: when a reconcile pass finishes, a VF
\* that was allocated to (ns, W) is no longer allocated to (ns, W) if the
\* fetched list omits (ns, W) or lists it as terminating.
C2_ReleaseOnOwnerTermination ==
    loop = "rec_unlock" =>
        \A k \in DOMAIN invBefore :
            (/\ invBefore[k].Allocated
             /\ \/ ~Listed(pods, invBefore[k].Namespace, invBefore[k].AllocatedTo)
                \/ ListedTerminating(pods, invBefore[k].Namespace, invBefore[k].AllocatedTo))
            => ~Owns(vfInventory[k], invBefore[k].Namespace, invBefore[k].AllocatedTo)

\* C3. Carry-forward on rediscovery: a VF that is allocated in the inventory
\* the swap replaces (which, without a concurrent release, is the inventory
\* the pass started from) and that the pass reports again is, in the
\* inventory the swap installs, allocated to the same pod of the same
\* namespace.
C3_CarryForward ==
    loop = "swap_unlock" =>
        \A k \in DOMAIN invBefore \cap DOMAIN newInventory :
            invBefore[k].Allocated =>
                k \in DOMAIN vfInventory /\ SameAllocation(invBefore[k], vfInventory[k])

\* A swap has installed an inventory in which a VF allocated before is kept.
C3_Witness ==
    /\ loop = "swap_unlock"
    /\ \E k \in DOMAIN invBefore \cap DOMAIN vfInventory :
          invBefore[k].Allocated /\ vfInventory[k].Allocated

\* C4. Drop on disappearance: a VF of the old inventory that the pass did
\* not report is not a key of the installed inventory, and GetVFForPod for
\* its former owner does not return it.
C4_DropOnDisappearance ==
    loop = "swap_unlock" =>
        \A k \in DOMAIN invBefore \ DOMAIN newInventory :
            /\ k \notin DOMAIN vfInventory
            /\ \A r \in GetVFForPod(vfInventory, invBefore[k].Namespace,
                                    invBefore[k].AllocatedTo) :
                  ~(r.found /\ VFKey(r.vf.PFName, r.vf.VFID) = k)

\* A swap has dropped a VF that was allocated.
C4_Witness ==
    /\ loop = "swap_unlock"
    /\ \E k \in DOMAIN invBefore \ DOMAIN newInventory : invBefore[k].Allocated

\* C5. The swap carries forward the current allocation state: every VF kept
\* by the swap has, in the installed inventory, the allocation state it had
\* in the inventory immediately before the swap (so a VF released before
\* the swap is free after it).
C5_SwapKeepsCurrentState ==
    loop = "swap_unlock" =>
        \A k \in DOMAIN invBefore \cap DOMAIN vfInventory :
            SameAllocation(invBefore[k], vfInventory[k])

\* C6. Idempotence of reconcile: from the inventory a reconcile leaves, a
\* second reconcile against the same pod list can only leave that inventory.
C6_ReconcileIdempotent ==
    loop = "rec_unlock" => ReconcileResults(vfInventory, pods) = {vfInventory}

\* A reconcile that both released and allocated has run.
C6_Witness ==
    /\ loop = "rec_unlock"
    /\ \E k \in DOMAIN invBefore : invBefore[k].Allocated /\ ~PodExists(invBefore[k], pods)
    /\ \E k \in DOMAIN vfInventory :
          vfInventory[k].Allocated /\ ~SameAllocation(invBefore[k], vfInventory[k])

\* C7. Deterministic allocation: with two or more free VFs and a list of one
\* requesting pod that has no allocation, reconcile can end in one inventory
\* only.
C7_DeterministicAllocation ==
    (/\ loop = "rec_release"
     /\ Cardinality(FreeKeys(vfInventory)) >= 2
     /\ Len(pods) = 1
     /\ Unserved(vfInventory, pods) = {1})
    => Cardinality(ReconcileResults(vfInventory, pods)) = 1

\* C8. Lookup correctness: GetVFForPod(ns, name) returns found with a VF of
\* the inventory that is allocated to (ns, name) when there is one, and
\* not-found with the zero VF otherwise; no step of GetVFForPod changes the
\* inventory.
C8_LookupCorrect ==
    /\ [](\A c \in Clients :
            client[c].pc = "get_runlock" =>
                IF Matches(vfInventory, client[c].ns, client[c].name) # {}
                THEN /\ client[c].found
                     /\ \E k \in DOMAIN vfInventory :
                           /\ vfInventory[k] = client[c].vf
                           /\ vfInventory[k].Allocated
                           /\ vfInventory[k].AllocatedTo = client[c].name
                           /\ vfInventory[k].Namespace = client[c].ns
                ELSE ~client[c].found /\ client[c].vf = ZeroVF)
    /\ [][\A c \in Clients :
            client[c].pc \in {"get_rlock", "get_scan", "get_runlock"}
            /\ client'[c] # client[c]
            => vfInventory' = vfInventory]_vars

\* A lookup has found a VF while another pod of the same name holds one too.
C8_Witness ==
    \E c \in Clients :
        /\ client[c].pc = "get_runlock"
        /\ client[c].found
        /\ \E k \in DOMAIN vfInventory :
              /\ vfInventory[k].Allocated
              /\ vfInventory[k].AllocatedTo = client[c].name
              /\ vfInventory[k].Namespace # client[c].ns

\* C9. ReleaseVF(ns, name) returns true exactly when a VF was allocated to
\* (ns, name); then one such VF has Allocated, AllocatedTo and Namespace
\* cleared and nothing else changes; when it returns false the inventory is
\* unchanged.
C9_ReleaseContract ==
    \A c \in Clients :
        client[c].pc = "rel_unlock" =>
            /\ client[c].found <=> Matches(invBefore, client[c].ns, client[c].name) # {}
            /\ DOMAIN vfInventory = DOMAIN invBefore
            /\ client[c].found =>
                  \E k \in Matches(invBefore, client[c].ns, client[c].name) :
                      /\ vfInventory[k].Allocated = FALSE
                      /\ vfInventory[k].AllocatedTo = ""
                      /\ vfInventory[k].Namespace = ""
                      /\ vfInventory[k].PFName = invBefore[k].PFName
                      /\ vfInventory[k].VFID = invBefore[k].VFID
                      /\ vfInventory[k].PCIAddress = invBefore[k].PCIAddress
                      /\ vfInventory[k].InterfaceName = invBefore[k].InterfaceName
                      /\ \A j \in DOMAIN invBefore \ {k} : vfInventory[j] = invBefore[j]
            /\ ~client[c].found => vfInventory = invBefore

\* A release has returned true while another VF stays allocated.
C9_Witness ==
    \E c \in Clients :
        /\ client[c].pc = "rel_unlock"
        /\ client[c].found
        /\ \E j \in DOMAIN vfInventory : vfInventory[j].Allocated

\* C10. Start runs a full pass at once and one per tick: whenever Start
\* waits in its select, the pass it has just finished (the initial one, or
\* the one of the last tick) performed a discovery and then a reconcile; a
\* pass whose discovery failed is allowed to end there.
C10_FullPassBeforeWait ==
    loop = "select" =>
        \/ passLog = <<"discover_err">>
        \/ /\ Len(passLog) = 2
           /\ passLog[1] = "discover"
           /\ passLog[2] \in {"reconcile", "reconcile_err"}

PassFailed ==
    /\ passLog # <<>>
    /\ passLog[Len(passLog)] \in {"discover_err", "reconcile_err"}

\* C11. Failures never stop the loop: Start has returned only if the
\* context was cancelled; a pass that failed (the initial discovery, a
\* tick's discovery, a reconcile) ends in Start's select, where the next
\* tick starts the next pass.
C11_FailuresNeverStop ==
    /\ loop = "returned" => ctxDone
    /\ PassFailed => loop \in {"select", "returned"}
    /\ (PassFailed /\ loop = "select") => ENABLED LoopTick

\* A tick's pass has failed, not by cancellation, and Start waits again.
C11_Witness ==
    /\ PassFailed
    /\ ticks >= 1
    /\ ~ctxDone
    /\ loop = "select"

DiscoverPcs ==
    {"disc_glob", "disc_dev", "disc_vf", "disc_rlock", "disc_carry",
     "swap_lock", "swap_assign", "swap_unlock"}

ClientInside(c) == client[c].pc \in {"get_scan", "get_runlock", "rel_scan", "rel_unlock"}

\* C13. No partially rebuilt inventory is visible: the only step of a
\* discovery pass that changes the shared inventory is the swap; it is taken
\* with the write lock held and no client inside GetVFForPod or ReleaseVF,
\* after the scan of all devices has ended, and it installs the whole new
\* map at once.  So a client sees the inventory from before the swap or the
\* complete new one.
C13_NoPartialInventory ==
    [][(loop \in DiscoverPcs /\ loop' # loop /\ vfInventory' # vfInventory)
       => /\ loop = "swap_assign"
          /\ mu.writer = LoopId
          /\ mu.readers = {}
          /\ \A c \in Clients : ~ClientInside(c)
          /\ devIdx > Len(Devices)
          /\ vfInventory' = newInventory]_vars

\* A swap has installed two or more VFs, none of which was there before,
\* while a client waits for the lock.
C13_Witness ==
    /\ loop = "swap_unlock"
    /\ Cardinality(DOMAIN vfInventory) >= 2
    /\ DOMAIN invBefore \cap DOMAIN vfInventory = {}
    /\ \E c \in Clients : client[c].pc \in {"get_rlock", "rel_lock"}

Everyone == {LoopId} \cup Clients

\* Who is between a Lock and its Unlock, and between an RLock and its RUnlock.
WritersInside ==
    {p \in Everyone :
        \/ p = LoopId /\ loop \in {"swap_assign", "swap_unlock", "rec_release",
                                   "rec_allocate", "rec_unlock"}
        \/ p \in Clients /\ client[p].pc \in {"rel_scan", "rel_unlock"}}

ReadersInside ==
    {p \in Everyone :
        \/ p = LoopId /\ loop = "disc_carry"
        \/ p \in Clients /\ client[p].pc \in {"get_scan", "get_runlock"}}

\* C14. Reader/writer exclusion: at most one writer (discovery swap,
\* reconcile, ReleaseVF) is inside its critical section, and while one is,
\* no reader (GetVFForPod, the carry-forward read) is inside one; readers
\* may be inside together.
C14_ReaderWriterExclusion ==
    /\ Cardinality(WritersInside) <= 1
    /\ WritersInside # {} => ReadersInside = {}
    /\ mu.readers = ReadersInside
    /\ mu.writer = (IF WritersInside = {} THEN NoOne ELSE CHOOSE p \in WritersInside : TRUE)

\* Two readers are inside together while a writer's turn has not come.
C14_Witness ==
    /\ Cardinality(ReadersInside) >= 2
    /\ WritersInside = {}

\* The loop's next step reads the host (the glob, sriov_numvfs, a VF's
\* uevent file) or calls the API server (Pods().List).
IoPcs == {"disc_glob", "disc_dev", "disc_vf", "rec_list"}

LoopHoldsLock == mu.writer = LoopId \/ LoopId \in mu.readers

\* C15. No external I/O under the inventory lock: when the loop is about to
\* read host device state or to fetch the pod list it holds the lock neither
\* for writing nor for reading; the fetch has ended, with a list or with an
\* error, before reconcile's Lock.
C15_NoIOUnderLock ==
    /\ loop \in IoPcs => ~LoopHoldsLock
    /\ loop = "rec_lock" => (passLog # <<>> /\ passLog[Len(passLog)] = "reconcile")
    /\ (passLog # <<>> /\ passLog[Len(passLog)] = "reconcile_err") => ~LoopHoldsLock

\* The loop reads the next VF's details, between two carry-forward reads,
\* while a client is inside the lock.
C15_Witness ==
    /\ loop = "disc_vf"
    /\ DOMAIN newInventory # {}
    /\ vfID < numVFs
    /\ \E c \in Clients : ClientInside(c)

FullyFree(vf) == ~vf.Allocated /\ vf.AllocatedTo = "" /\ vf.Namespace = ""

FullyAllocated(vf) == vf.Allocated /\ vf.AllocatedTo # "" /\ vf.Namespace # ""

\* C16. No partial allocation state: every VF record of the inventory is
\* fully free or fully allocated, in every state, the states inside the
\* critical sections included (pods have a name and a namespace).
C16_NoPartialAllocation ==
    \A k \in DOMAIN vfInventory :
        FullyFree(vfInventory[k]) \/ FullyAllocated(vfInventory[k])

\* Some writer has just freed a VF while another VF stays allocated.
C16_Witness ==
    /\ \E k \in DOMAIN invBefore \cap DOMAIN vfInventory :
          invBefore[k].Allocated /\ FullyFree(vfInventory[k])
    /\ \E j \in DOMAIN vfInventory : FullyAllocated(vfInventory[j])

\* C18. Capability-absent is non-fatal: when ValidateSRIOVCapabilities
\* reported an error, Controller.Start has still returned nil and, SR-IOV
\* being enabled, has launched the manager's loop.
C18_CapabilityAbsentNonFatal ==
    (ctrl.pc # "new" /\ ctrl.hwErr) =>
        /\ ~ctrl.err
        /\ enableSRIOV => loop # "idle"

\* The validation failed and the manager has finished a reconcile.
C18_Witness ==
    /\ ctrl.hwErr
    /\ enableSRIOV
    /\ loop = "rec_unlock"

\* C19. Reconcile is one atomic inventory mutation: from the start of the
\* release pass to the end of the allocate pass the loop holds the write
\* lock and no client is inside GetVFForPod or ReleaseVF, so none can see or
\* change the inventory between the two passes.
C19_ReconcileAtomic ==
    loop \in {"rec_release", "rec_allocate", "rec_unlock"} =>
        /\ mu.writer = LoopId
        /\ mu.readers = {}
        /\ \A c \in Clients : ~ClientInside(c)

\* Between the two passes, the release pass having freed a VF, a client
\* waits for the lock.
C19_Witness ==
    /\ loop = "rec_allocate"
    /\ \E k \in DOMAIN invBefore : invBefore[k].Allocated /\ ~vfInventory[k].Allocated
    /\ \E c \in Clients : client[c].pc \in {"get_rlock", "rel_lock"}

\* C20. The allocate pass is work-conserving: when a reconcile ends, no
\* listed pod that is not terminating is without a VF while a VF is free;
\* VFs freed by the release pass of the same reconcile count as free.
C20_WorkConserving ==
    loop = "rec_unlock" =>
        ~(Unserved(vfInventory, pods) # {} /\ FreeKeys(vfInventory) # {})

\* A reconcile has given a VF freed by its release pass to another pod, and
\* has served two pods.
C20_Witness ==
    /\ loop = "rec_unlock"
    /\ \E k \in DOMAIN invBefore :
          /\ invBefore[k].Allocated
          /\ ~PodExists(invBefore[k], pods)
          /\ vfInventory[k].Allocated
    /\ Cardinality({i \in 1..Len(pods) :
                      ~AlreadyAllocated(invBefore, pods[i])
                      /\ AlreadyAllocated(vfInventory, pods[i])}) >= 2

\* C12. Cooperative shutdown terminates: once Stop has cancelled the
\* context the loop observes it and Start returns; Stop then returns, after
\* that exit or after its timeout, and without an error either way; it
\* reports a graceful stop only when the loop has exited.
C12_ShutdownTerminates ==
    /\ (ctxDone /\ loop # "idle") ~> (loop = "returned")
    /\ (ctrl.pc = "stopping") ~> (ctrl.pc = "stopped")
    /\ [](ctrl.pc = "stopped" => ~ctrl.err /\ ctrl.how \in {"graceful", "timeout"})
    /\ [](ctrl.how = "graceful" => loop \in {"idle", "returned"})

\* Stop has returned by its timeout while the loop, in the middle of a
\* pass, had not yet seen the cancellation.
C12_Witness ==
    /\ ctrl.pc = "stopped"
    /\ ctrl.how = "timeout"
    /\ loop \in {"swap_lock", "rec_list"}

\* C17. Query and release always return: a call of GetVFForPod or ReleaseVF
\* made in any state (before Start, while the loop runs, after it returned)
\* gets the lock and returns; and whenever the lock is held, its holder has
\* a step to take, so no state is a deadlock on the lock.
C17_CallsReturn ==
    /\ \A c \in Clients : (client[c].pc # "idle") ~> (client[c].pc = "idle")
    /\ [](mu.writer = LoopId =>
            ENABLED (SwapAssign \/ SwapUnlock \/ ReconcileRelease
                     \/ ReconcileAllocate \/ ReconcileUnlock))
    /\ [](LoopId \in mu.readers => ENABLED DiscoverCarry)
    /\ [](\A c \in Clients :
            (mu.writer = c \/ c \in mu.readers) =>
                ENABLED (GetScan(c) \/ GetReturn(c) \/ ReleaseScan(c) \/ ReleaseReturn(c)))

\* A client waits for the lock that the loop holds inside reconcile.
C17_Witness ==
    /\ loop \in {"rec_release", "rec_allocate", "rec_unlock"}
    /\ \E c \in Clients : client[c].pc \in {"get_rlock", "rel_lock"}

Last(s) == s[Len(s)]

\* C21. Workload-list failure aborts only that reconcile: the step in which
\* the list call fails takes no lock, changes no VF record, returns to
\* Start's select, and changes nothing a caller of GetVFForPod or ReleaseVF
\* or the controller sees; after it the loop holds no lock.
C21_ListFailureAbortsReconcile ==
    /\ []((passLog # <<>> /\ Last(passLog) = "reconcile_err")
            => (loop \in {"select", "returned"} /\ ~LoopHoldsLock))
    /\ [][(loop = "rec_list" /\ passLog' # passLog /\ Last(passLog') = "reconcile_err")
            => /\ loop' = "select"
               /\ vfInventory' = vfInventory
               /\ mu' = mu
               /\ client' = client
               /\ ctrl' = ctrl]_vars

\* The list call has failed without any cancellation, with a VF allocated
\* and a call of a client under way.
C21_Witness ==
    /\ passLog # <<>>
    /\ Last(passLog) = "reconcile_err"
    /\ ~ctxDone
    /\ loop = "select"
    /\ \E k \in DOMAIN vfInventory : vfInventory[k].Allocated
    /\ \E c \in Clients : client[c].pc # "idle"

\* C22. Top-level discovery failure is pass-fatal and leaves state intact:
\* the step in which the glob fails leaves the inventory and the lock as
\* they were and returns to Start's select; nothing more is called in that
\* tick, in particular no reconcile.
C22_DiscoveryFailurePassFatal ==
    /\ []((passLog # <<>> /\ passLog[1] = "discover_err")
            => (Len(passLog) = 1 /\ loop \in {"select", "returned"}))
    /\ [][(loop = "disc_glob" /\ passLog' # passLog /\ Last(passLog') = "discover_err")
            => /\ loop' = "select"
               /\ vfInventory' = vfInventory
               /\ mu' = mu]_vars

\* The discovery of a tick has failed while a VF is allocated.
C22_Witness ==
    /\ passLog = <<"discover_err">>
    /\ ticks >= 1
    /\ loop = "select"
    /\ \E k \in DOMAIN vfInventory : vfInventory[k].Allocated

\* C23. Cancellation is observed only between passes: signalling the
\* cancellation while a pass is in progress leaves the loop where it is and
\* takes away nothing of what the pass goes on to do (a discovery that could
\* go on to its swap still can, a reconcile that could get its pod list and
\* go on to its two passes still can), and Start returns only from the
\* select between passes.
C23_CancellationBetweenPasses ==
    /\ [][(~ctxDone /\ ctxDone')
            => /\ loop' = loop
               /\ (ENABLED (DiscoverGlob /\ loop' = "disc_dev"))
                    => (ENABLED (DiscoverGlob /\ loop' = "disc_dev"))'
               /\ (ENABLED (ReconcileList /\ loop' = "rec_lock"))
                    => (ENABLED (ReconcileList /\ loop' = "rec_lock"))']_vars
    /\ [][(loop' = "returned" /\ loop # "returned") => loop = "select"]_vars

\* A VF that the reconcile under way has given to a workload: allocated now,
\* and not to the workload that held it when the reconcile took the lock.
NewlyServed(k) ==
    /\ k \in DOMAIN invBefore
    /\ vfInventory[k].Allocated
    /\ ~(invBefore[k].Allocated /\ SameAllocation(invBefore[k], vfInventory[k]))

\* C24. Terminating workloads are never newly served: every VF that a
\* reconcile pass has allocated went to a workload that is in the fetched
\* list and is not marked terminating there.
C24_TerminatingNeverServed ==
    loop = "rec_unlock" =>
        \A k \in DOMAIN vfInventory :
            NewlyServed(k) =>
                \E i \in 1..Len(pods) :
                    /\ Owns(vfInventory[k], pods[i].Namespace, pods[i].Name)
                    /\ ~pods[i].Terminating

\* A reconcile has served one workload and left a VF free although a
\* terminating workload of the list owns none.
C24_Witness ==
    /\ loop = "rec_unlock"
    /\ \E k \in DOMAIN vfInventory : NewlyServed(k)
    /\ FreeKeys(vfInventory) # {}
    /\ \E i \in 1..Len(pods) :
          pods[i].Terminating /\ ~AlreadyAllocated(vfInventory, pods[i])

\* C25. A workload owns at most one VF: in every reachable state no
\* identity (namespace, name) is the recorded owner of two VFs of the
\* inventory, so the first match that GetVFForPod and ReleaseVF act on is
\* the only one and each has a single possible result.
C25_AtMostOneVF ==
    \A w \in Identities :
        /\ Cardinality(Matches(vfInventory, w[1], w[2])) <= 1
        /\ Cardinality(GetVFForPod(vfInventory, w[1], w[2])) = 1
        /\ Cardinality(ReleaseVF(vfInventory, w[1], w[2])) = 1

\* Two VFs are held, by two workloads, right after a swap that brought back
\* an allocation which a ReleaseVF had cleared during the discovery.
C25_Witness ==
    /\ loop = "swap_unlock"
    /\ Cardinality({k \in DOMAIN vfInventory : vfInventory[k].Allocated}) >= 2
    /\ \E k \in DOMAIN invBefore \cap DOMAIN vfInventory :
          ~invBefore[k].Allocated /\ vfInventory[k].Allocated

====
